---------------------------- MODULE Spec2Model ----------------------------
(***************************************************************************)
(* get-livecaptions: the line-alignment diff (extract_new_lines) and the   *)
(* event loop of main() that drives the persistence and the translation   *)
(* cadence over the two buffers of Engine.                                 *)
(*                                                                         *)
(* A text (Rust String / &str) is a sequence of one-character strings.     *)
(***************************************************************************)
EXTENDS Integers, Sequences, FiniteSets, TLC

VARIABLES
    \* the caption source (Live Captions window), outside the program
    hist,              \* every line the source produced so far, in order
    top,               \* how many leading lines have scrolled out of the reported text
    window,            \* the LiveCaptionsDesktopWindow exists
    \* struct Engine and the command line
    prebuffer,         \* Engine.prebuffer
    translate_buffer,  \* Engine.translate_buffer
    enable_translate,  \* args.translate.is_some()
    \* the collaborators' side of the run
    file,              \* content of the output file args.file
    sink,              \* calls of translate_text, in order: [text, ok]
    \* the loop of main()
    pc,                \* "loop" while main() selects events, "handling" inside an arm
                       \* (SpecSteps), "exited" after process::exit
    exit_code,         \* status given to process::exit (-1: none yet)
    nticks,            \* events the loop has handled so far
    ev,                \* what the handler did, when the last step was a handler's
    sigint,            \* [pressed, during]: ctrl-c was pressed, so the ctrl_c future is
                       \* ready from then on, and the kind of the arm that was running
                       \* when it was pressed ("none": the loop was waiting)
    running,           \* the handler in flight between its selection and its end
    \* history kept for the properties
    lastP,             \* snapshot of the last persistence step that returned Ok after a capture
    lastT,             \* the same for the translation cadence
    delivered,         \* deltas the writer has written and synced, in order
    covered,           \* lines of hist that a successful persistence step had in its
                       \* snapshot, while no line left the window before such a step
    \* one call of extract_new_lines (SpecFn)
    in_previous, in_current, out_result, called

engine_vars == <<prebuffer, translate_buffer, enable_translate, file, sink, pc,
                 exit_code, nticks, ev, sigint, running, lastP, lastT, delivered,
                 covered>>
source_vars == <<hist, top, window>>
fn_vars == <<in_previous, in_current, out_result, called>>
vars == <<source_vars, engine_vars, fn_vars>>

(***************************************************************************)
(* Bounds of the model.                                                    *)
(***************************************************************************)
\* longest text handed to extract_new_lines in SpecFn
MaxLen == 5
\* most lines the caption source ever produced in Spec
MaxHist == 2
\* most events (timer ticks, ctrl-c) the loop handles in Spec
MaxEvents == 2

NL == "\n"
CR == "\r"
\* characters of the texts enumerated in SpecFn
FnChars == {"a", "b", NL}
\* values a caption line takes in Spec: a word and a blank line
LineVals == {<<"a">>, <<" ">>}

Min(a, b) == IF a < b THEN a ELSE b

RECURSIVE TextsUpTo(_)
TextsUpTo(n) ==
    IF n = 0 THEN {<<>>}
    ELSE LET shorter == TextsUpTo(n - 1)
         IN  shorter \cup {Append(t, ch) : t \in {u \in shorter : Len(u) = n - 1}, ch \in FnChars}

(***************************************************************************)
(* Text helpers of the Rust standard library, as the code uses them.       *)
(***************************************************************************)
\* str::lines: the text is cut after every "\n"; a piece loses its "\n" and,
\* only if it had one, a "\r" before it; the text after the last "\n" is a
\* line only when it is not empty.
RECURSIVE LinesFrom(_, _, _)
LinesFrom(s, i, cur) ==
    IF i > Len(s) THEN (IF cur = <<>> THEN <<>> ELSE <<cur>>)
    ELSE IF s[i] = NL
         THEN LET line == IF cur # <<>> /\ cur[Len(cur)] = CR
                          THEN SubSeq(cur, 1, Len(cur) - 1) ELSE cur
              IN  <<line>> \o LinesFrom(s, i + 1, <<>>)
         ELSE LinesFrom(s, i + 1, Append(cur, s[i]))

Lines(s) == LinesFrom(s, 1, <<>>)

\* [&str]::join(sep)
RECURSIVE Join(_, _)
Join(ls, sep) ==
    IF ls = <<>> THEN <<>>
    ELSE IF Len(ls) = 1 THEN ls[1]
    ELSE ls[1] \o sep \o Join(Tail(ls), sep)

\* char::is_whitespace on the characters of the model
IsWhitespace(ch) == ch \in {" ", NL, CR, "\t"}

\* s.trim().is_empty()
TrimIsEmpty(s) == \A i \in 1..Len(s) : IsWhitespace(s[i])

\* the guard of both consumers: !new_content.is_empty() && !new_content.trim().is_empty()
IsDeliverable(new_content) == new_content # <<>> /\ ~TrimIsEmpty(new_content)

(***************************************************************************)
(* extract_new_lines (main.rs 158-211).  Indices are 1-based here: the     *)
(* code's start_idx s is start_idx s + 1.                                  *)
(***************************************************************************)
\* the inner loop "for i in 0..max_possible": consecutive equal lines of
\* prev_lines from start_idx and of curr_lines from its first line
RECURSIVE MatchFrom(_, _, _, _, _)
MatchFrom(prev_lines, curr_lines, start_idx, i, max_possible) ==
    IF i >= max_possible THEN 0
    ELSE IF prev_lines[start_idx + i] = curr_lines[i + 1]
         THEN 1 + MatchFrom(prev_lines, curr_lines, start_idx, i + 1, max_possible)
         ELSE 0

\* mutant: the inner loop stops one line early ("0..max_possible - 1")
match_len_off_by_one(prev_lines, curr_lines, start_idx) ==
    LET max_possible == Min(Len(prev_lines) - (start_idx - 1), Len(curr_lines))
    IN  MatchFrom(prev_lines, curr_lines, start_idx, 0, max_possible - 1)

\* mutant: the "break" is missing, equal lines after a mismatch still count
match_len_no_break(prev_lines, curr_lines, start_idx) ==
    LET max_possible == Min(Len(prev_lines) - (start_idx - 1), Len(curr_lines))
    IN  Cardinality({i \in 0..(max_possible - 1) :
                        prev_lines[start_idx + i] = curr_lines[i + 1]})

match_len(prev_lines, curr_lines, start_idx) ==
    LET max_possible == Min(Len(prev_lines) - (start_idx - 1), Len(curr_lines))
    IN  MatchFrom(prev_lines, curr_lines, start_idx, 0, max_possible)

\* the outer loop "for start_idx in 0..prev_lines.len()", carrying best_match_len
RECURSIVE ScanStarts(_, _, _, _)
ScanStarts(prev_lines, curr_lines, start_idx, best) ==
    IF start_idx > Len(prev_lines) THEN best
    ELSE LET m == match_len(prev_lines, curr_lines, start_idx)
         IN  ScanStarts(prev_lines, curr_lines, start_idx + 1,
                        IF m > best THEN m ELSE best)

\* mutant: only a run that reaches the end of previous counts as overlap
best_match_len_suffix_only(prev_lines, curr_lines) ==
    LET ms == {m \in 0..Min(Len(prev_lines), Len(curr_lines)) :
                 \A i \in 1..m : prev_lines[Len(prev_lines) - m + i] = curr_lines[i]}
    IN  CHOOSE m \in ms : \A x \in ms : x <= m

\* mutant: the first start index with any match decides, not the longest run
best_match_len_first_hit(prev_lines, curr_lines) ==
    LET hits == {s \in 1..Len(prev_lines) : match_len(prev_lines, curr_lines, s) > 0}
    IN  IF hits = {} THEN 0
        ELSE match_len(prev_lines, curr_lines, CHOOSE s \in hits : \A x \in hits : s <= x)

\* best_match_len after the scan (main.rs 173-192)
best_match_len(prev_lines, curr_lines) == ScanStarts(prev_lines, curr_lines, 1, 0)

\* every line followed by a terminator
RECURSIVE Terminated(_)
Terminated(ls) ==
    IF ls = <<>> THEN <<>> ELSE ls[1] \o <<NL>> \o Terminated(Tail(ls))

\* mutant: the new content starts one line after the overlap
extract_new_lines_skip_first_new(previous, current) ==
    IF previous = <<>> THEN current
    ELSE LET prev_lines == Lines(previous)
             curr_lines == Lines(current)
         IN  IF prev_lines = <<>> THEN current
             ELSE LET best == best_match_len(prev_lines, curr_lines)
                  IN  IF best > 0
                      THEN IF best < Len(curr_lines)
                           THEN LET new_content ==
                                      Join(SubSeq(curr_lines, best + 2, Len(curr_lines)), <<NL>>)
                                IN  IF new_content # <<>> THEN new_content \o <<NL>>
                                    ELSE new_content
                           ELSE <<>>
                      ELSE current

\* mutant: without overlap the lines of current are rejoined and
\* terminated instead of current being returned as it is
extract_new_lines_rejoin_no_overlap(previous, current) ==
    IF previous = <<>> THEN current
    ELSE LET prev_lines == Lines(previous)
             curr_lines == Lines(current)
         IN  IF prev_lines = <<>> THEN current
             ELSE LET best == best_match_len(prev_lines, curr_lines)
                  IN  IF best > 0
                      THEN IF best < Len(curr_lines)
                           THEN LET new_content ==
                                      Join(SubSeq(curr_lines, best + 1, Len(curr_lines)), <<NL>>)
                                IN  IF new_content # <<>> THEN new_content \o <<NL>>
                                    ELSE new_content
                           ELSE <<>>
                      ELSE Terminated(curr_lines)

\* mutant: the first run terminates the text it returns
extract_new_lines_first_run_terminated(previous, current) ==
    IF previous = <<>>
    THEN (IF current = <<>> \/ current[Len(current)] = NL THEN current
          ELSE current \o <<NL>>)
    ELSE LET prev_lines == Lines(previous)
             curr_lines == Lines(current)
         IN  IF prev_lines = <<>> THEN current
             ELSE LET best == best_match_len(prev_lines, curr_lines)
                  IN  IF best > 0
                      THEN IF best < Len(curr_lines)
                           THEN LET new_content ==
                                      Join(SubSeq(curr_lines, best + 1, Len(curr_lines)), <<NL>>)
                                IN  IF new_content # <<>> THEN new_content \o <<NL>>
                                    ELSE new_content
                           ELSE <<>>
                      ELSE current

\* mutant: no terminator is added after the joined new lines
extract_new_lines_no_trailing_terminator(previous, current) ==
    IF previous = <<>> THEN current
    ELSE LET prev_lines == Lines(previous)
             curr_lines == Lines(current)
         IN  IF prev_lines = <<>> THEN current
             ELSE LET best == best_match_len(prev_lines, curr_lines)
                  IN  IF best > 0
                      THEN IF best < Len(curr_lines)
                           THEN LET new_content ==
                                      Join(SubSeq(curr_lines, best + 1, Len(curr_lines)), <<NL>>)
                                IN  IF new_content # <<>> THEN new_content
                                    ELSE new_content
                           ELSE <<>>
                      ELSE current

\* extract_new_lines (main.rs 158-211)
extract_new_lines(previous, current) ==
    IF previous = <<>> THEN current
    ELSE LET prev_lines == Lines(previous)
             curr_lines == Lines(current)
         IN  IF prev_lines = <<>> THEN current
             ELSE LET best == best_match_len(prev_lines, curr_lines)
                  IN  IF best > 0
                      THEN IF best < Len(curr_lines)
                           THEN LET new_content ==
                                      Join(SubSeq(curr_lines, best + 1, Len(curr_lines)), <<NL>>)
                                IN  IF new_content # <<>> THEN new_content \o <<NL>>
                                    ELSE new_content
                           ELSE <<>>
                      ELSE current

(***************************************************************************)
(* The caption source as the program sees it.                              *)
(***************************************************************************)
\* the text CurrentName() reports: the lines still in the window, one "\n"
\* between two lines
Snapshot == Join(SubSeq(hist, top + 1, Len(hist)), <<NL>>)

\* FindWindowW(w!("LiveCaptionsDesktopWindow"), None).is_ok()
is_livecaptions_running(src) == src.window

\* Engine::get_livecaptions: the window lookup and the three UI Automation
\* calls, each of which may fail (src.uia = FALSE)
get_livecaptions(src) ==
    IF src.window /\ src.uia
    THEN [ok |-> TRUE, text |-> src.text]
    ELSE [ok |-> FALSE, text |-> <<>>]

(***************************************************************************)
(* The output file.  "#" stands for the formatted local time               *)
(* "[%Y-%m-%d][%H:%M:%S]" that writeln! puts on a line of its own.         *)
(***************************************************************************)
Header == <<"#", NL>>

\* where the body of "if !new_content.is_empty() ..." (main.rs 111-120) stops
WriteOutcomes == {"ok", "open", "header", "content", "newline", "sync"}

\* main.rs 111-120: open(append), writeln!(header), write_all(content),
\* write_all("\n"), sync_all; each "?" returns at the first failure and what
\* was written before it stays in the file
append_record(f, new_content, wo) ==
    CASE wo = "open"    -> [file |-> f, ok |-> FALSE]
      [] wo = "header"  -> [file |-> f, ok |-> FALSE]
      [] wo = "content" -> [file |-> f \o Header, ok |-> FALSE]
      [] wo = "newline" -> [file |-> f \o Header \o new_content, ok |-> FALSE]
      [] wo = "sync"    -> [file |-> f \o Header \o new_content \o <<NL>>, ok |-> FALSE]
      [] OTHER          -> [file |-> f \o Header \o new_content \o <<NL>>, ok |-> TRUE]

\* translate_url(...).await: the service answers or the call fails
TranslateOutcomes == {"ok", "fail"}

(***************************************************************************)
(* The methods of Engine.  self is [prebuffer, translate_buffer]; each     *)
(* method returns the engine and the file after the call, its Result, and  *)
(* what it did on the way.                                                 *)
(***************************************************************************)
Done(self, f, res, cap, new_content, write, translate) ==
    [self |-> self, file |-> f, result |-> res,
     captures |-> 1, captured |-> cap.ok, snapshot |-> cap.text,
     new_content |-> new_content, write |-> write, translate |-> translate]

\* mutant: the translation error is swallowed after the buffer moved on
translate_new_content_advance_on_error(self, f, src, to) ==
    LET cap == get_livecaptions(src) IN
    IF cap.ok
    THEN LET new_content == extract_new_lines(self.translate_buffer, cap.text) IN
         IF IsDeliverable(new_content)
         THEN Done([self EXCEPT !.translate_buffer = cap.text], f,
                   IF to = "ok" THEN "Ok" ELSE "Err",
                   cap, new_content, "none", IF to = "ok" THEN "ok" ELSE "fail")
         ELSE Done([self EXCEPT !.translate_buffer = cap.text], f, "Ok",
                   cap, new_content, "none", "none")
    ELSE Done(self, f, "Ok", cap, <<>>, "none", "none")

\* mutant: one buffer for both cadences, the translation step diffs against
\* prebuffer and moves it
translate_new_content_shared_buffer(self, f, src, to) ==
    LET cap == get_livecaptions(src) IN
    IF cap.ok
    THEN LET new_content == extract_new_lines(self.prebuffer, cap.text) IN
         IF IsDeliverable(new_content)
         THEN IF to = "ok"
              THEN Done([self EXCEPT !.prebuffer = cap.text], f, "Ok",
                        cap, new_content, "none", "ok")
              ELSE Done(self, f, "Err", cap, new_content, "none", "fail")
         ELSE Done([self EXCEPT !.prebuffer = cap.text], f, "Ok",
                   cap, new_content, "none", "none")
    ELSE Done(self, f, "Ok", cap, <<>>, "none", "none")

\* Engine::translate_new_content (main.rs 87-100)
translate_new_content(self, f, src, to) ==
    LET cap == get_livecaptions(src) IN
    IF cap.ok
    THEN LET new_content == extract_new_lines(self.translate_buffer, cap.text) IN
         IF IsDeliverable(new_content)
         THEN IF to = "ok"
              THEN Done([self EXCEPT !.translate_buffer = cap.text], f, "Ok",
                        cap, new_content, "none", "ok")
              ELSE Done(self, f, "Err", cap, new_content, "none", "fail")
         ELSE Done([self EXCEPT !.translate_buffer = cap.text], f, "Ok",
                   cap, new_content, "none", "none")
    ELSE Done(self, f, "Ok", cap, <<>>, "none", "none")

\* mutant: prebuffer is updated before the write, so a failed write keeps it
save_current_captions_advance_on_error(self, f, src, wo) ==
    LET cap == get_livecaptions(src) IN
    IF cap.ok
    THEN LET new_content == extract_new_lines(self.prebuffer, cap.text)
             moved == [self EXCEPT !.prebuffer = cap.text] IN
         IF IsDeliverable(new_content)
         THEN LET w == append_record(f, new_content, wo) IN
              Done(moved, w.file, IF w.ok THEN "Ok" ELSE "Err", cap, new_content, wo, "none")
         ELSE Done(moved, f, "Ok", cap, new_content, "none", "none")
    ELSE Done(self, f, "Ok", cap, <<>>, "none", "none")

\* mutant: a failed capture counts as an empty snapshot (unwrap_or_default)
save_current_captions_empty_on_capture_error(self, f, src, wo) ==
    LET cap == get_livecaptions(src) IN
    IF cap.ok
    THEN LET new_content == extract_new_lines(self.prebuffer, cap.text) IN
         IF IsDeliverable(new_content)
         THEN LET w == append_record(f, new_content, wo) IN
              IF w.ok
              THEN Done([self EXCEPT !.prebuffer = cap.text], w.file, "Ok",
                        cap, new_content, wo, "none")
              ELSE Done(self, w.file, "Err", cap, new_content, wo, "none")
         ELSE Done([self EXCEPT !.prebuffer = cap.text], f, "Ok",
                   cap, new_content, "none", "none")
    ELSE Done([self EXCEPT !.prebuffer = <<>>], f, "Ok", cap, <<>>, "none", "none")

\* mutant: the buffer update sits inside the "if", so a step with nothing to
\* deliver leaves prebuffer behind
save_current_captions_keep_on_blank(self, f, src, wo) ==
    LET cap == get_livecaptions(src) IN
    IF cap.ok
    THEN LET new_content == extract_new_lines(self.prebuffer, cap.text) IN
         IF IsDeliverable(new_content)
         THEN LET w == append_record(f, new_content, wo) IN
              IF w.ok
              THEN Done([self EXCEPT !.prebuffer = cap.text], w.file, "Ok",
                        cap, new_content, wo, "none")
              ELSE Done(self, w.file, "Err", cap, new_content, wo, "none")
         ELSE Done(self, f, "Ok", cap, new_content, "none", "none")
    ELSE Done(self, f, "Ok", cap, <<>>, "none", "none")

\* Engine::save_current_captions (main.rs 102-126)
save_current_captions(self, f, src, wo) ==
    LET cap == get_livecaptions(src) IN
    IF cap.ok
    THEN LET new_content == extract_new_lines(self.prebuffer, cap.text) IN
         IF IsDeliverable(new_content)
         THEN LET w == append_record(f, new_content, wo) IN
              IF w.ok
              THEN Done([self EXCEPT !.prebuffer = cap.text], w.file, "Ok",
                        cap, new_content, wo, "none")
              ELSE Done(self, w.file, "Err", cap, new_content, wo, "none")
         ELSE Done([self EXCEPT !.prebuffer = cap.text], f, "Ok",
                   cap, new_content, "none", "none")
    ELSE Done(self, f, "Ok", cap, <<>>, "none", "none")

\* Engine::graceful_shutdown (main.rs 128-131)
graceful_shutdown(self, f, src, wo) == save_current_captions(self, f, src, wo)

(***************************************************************************)
(* The three arms of the select! in main() (main.rs 253-280).  Each gives  *)
(* the record of what the handler did (ev) together with the engine and    *)
(* the file it leaves.                                                     *)
(***************************************************************************)
NoEvent ==
    [kind |-> "none", shutdown |-> FALSE, self |-> [prebuffer |-> <<>>, translate_buffer |-> <<>>],
     before |-> [prebuffer |-> <<>>, translate_buffer |-> <<>>],
     file |-> <<>>, file_before |-> <<>>, result |-> "Ok", captures |-> 0,
     captured |-> FALSE, snapshot |-> <<>>, new_content |-> <<>>,
     write |-> "none", translate |-> "none", logged |-> FALSE,
     exits |-> FALSE, exit_code |-> -1]

Handled(kind, self, f, r, shutdown, logged) ==
    [kind |-> kind, shutdown |-> shutdown, self |-> r.self, before |-> self,
     file |-> r.file, file_before |-> f, result |-> r.result, captures |-> r.captures,
     captured |-> r.captured, snapshot |-> r.snapshot, new_content |-> r.new_content,
     write |-> r.write, translate |-> r.translate, logged |-> logged,
     exits |-> shutdown, exit_code |-> IF shutdown THEN 0 ELSE -1]

\* the arm of windows_timer.tick() (main.rs 255-268)
on_windows_timer(self, f, src, enable, wo, to) ==
    IF ~is_livecaptions_running(src)
    THEN Handled("fast", self, f, graceful_shutdown(self, f, src, wo), TRUE, FALSE)
    ELSE IF enable
         THEN LET r == translate_new_content(self, f, src, to)
              IN  Handled("fast", self, f, r, FALSE, r.result = "Err")
         ELSE [NoEvent EXCEPT !.kind = "fast", !.self = self, !.before = self,
                              !.file = f, !.file_before = f]

\* mutant: an error of the slow tick ends the process
on_writefile_timer_exit_on_error(self, f, src, wo) ==
    LET r == save_current_captions(self, f, src, wo)
    IN  [Handled("slow", self, f, r, FALSE, r.result = "Err") EXCEPT
            !.exits = (r.result = "Err"),
            !.exit_code = IF r.result = "Err" THEN 1 ELSE -1]

\* the arm of writefile_timer.tick() (main.rs 269-274)
on_writefile_timer(self, f, src, wo) ==
    LET r == save_current_captions(self, f, src, wo)
    IN  Handled("slow", self, f, r, FALSE, r.result = "Err")

\* mutant: the result of graceful_shutdown decides the exit status
on_ctrl_c_status_from_result(self, f, src, wo) ==
    LET r == graceful_shutdown(self, f, src, wo)
    IN  [Handled("ctrl_c", self, f, r, TRUE, FALSE) EXCEPT
            !.exit_code = IF r.result = "Err" THEN 1 ELSE 0]

\* the arm of ctrl_c (main.rs 275-278)
on_ctrl_c(self, f, src, wo) ==
    Handled("ctrl_c", self, f, graceful_shutdown(self, f, src, wo), TRUE, FALSE)

(***************************************************************************)
(* The state machine.                                                      *)
(***************************************************************************)
Self == [prebuffer |-> prebuffer, translate_buffer |-> translate_buffer]

NoSnapshot == [seen |-> FALSE, text |-> <<>>]

\* a handler that used the persistence buffer
IsPersistenceStep(e) == e.kind \in {"slow", "ctrl_c"} \/ (e.kind = "fast" /\ e.shutdown)
\* a handler that used the translation buffer
IsTranslationStep(e) == e.kind = "fast" /\ ~e.shutdown /\ e.captures > 0
\* the step captured a snapshot and returned Ok
Succeeded(e) == e.captured /\ e.result = "Ok"

\* the program's variables after the handler whose record is e
Apply(e) ==
    /\ ev' = e
    /\ prebuffer' = e.self.prebuffer
    /\ translate_buffer' = e.self.translate_buffer
    /\ file' = e.file
    /\ sink' = IF e.translate = "none" THEN sink
               ELSE Append(sink, [text |-> e.new_content, ok |-> e.translate = "ok"])
    /\ pc' = IF e.exits THEN "exited" ELSE "loop"
    /\ exit_code' = e.exit_code
    /\ lastP' = IF IsPersistenceStep(e) /\ Succeeded(e)
                THEN [seen |-> TRUE, text |-> e.snapshot] ELSE lastP
    /\ lastT' = IF IsTranslationStep(e) /\ Succeeded(e)
                THEN [seen |-> TRUE, text |-> e.snapshot] ELSE lastT
    /\ delivered' = IF e.write = "ok" THEN Append(delivered, e.new_content) ELSE delivered
    /\ covered' = IF IsPersistenceStep(e) /\ Succeeded(e) /\ top <= covered
                  THEN Len(hist) ELSE covered
    /\ UNCHANGED <<enable_translate, sigint, running, source_vars, fn_vars>>

Source(uia) == [window |-> window, uia |-> uia, text |-> Snapshot]

EngineInit ==
    /\ prebuffer = <<>>
    /\ translate_buffer = <<>>
    /\ file = <<>>
    /\ sink = <<>>
    /\ pc = "loop"
    /\ exit_code = -1
    /\ nticks = 0
    /\ ev = NoEvent
    /\ sigint = [pressed |-> FALSE, during |-> "none"]
    /\ running = NoEvent
    /\ lastP = NoSnapshot
    /\ lastT = NoSnapshot
    /\ delivered = <<>>
    /\ covered = 0

\* main() goes on to the loop only if is_livecaptions_running() (main.rs 223-226)
SourceInit ==
    /\ hist = <<>>
    /\ top = 0
    /\ window = TRUE

FnIdle ==
    /\ in_previous = <<>>
    /\ in_current = <<>>
    /\ out_result = <<>>
    /\ called = FALSE

Init ==
    /\ SourceInit
    /\ EngineInit
    /\ enable_translate \in BOOLEAN
    /\ FnIdle

\* the source changes while its window is there and the loop can still
\* handle an event
Observable == window /\ pc = "loop" /\ nticks < MaxEvents

\* a step of the source: the program does nothing
NoHandler ==
    /\ ev' = NoEvent
    /\ UNCHANGED <<prebuffer, translate_buffer, enable_translate, file, sink, pc,
                   exit_code, nticks, sigint, running, lastP, lastT, delivered,
                   covered, fn_vars>>

\* the source says one more line
SourceAppend ==
    /\ Observable
    /\ Len(hist) < MaxHist
    /\ \E l \in LineVals : hist' = Append(hist, l)
    /\ UNCHANGED <<top, window>>
    /\ NoHandler

\* the source revises its last line in place
SourceRewrite ==
    /\ Observable
    /\ Len(hist) > top
    /\ \E l \in LineVals \ {hist[Len(hist)]} : hist' = [hist EXCEPT ![Len(hist)] = l]
    /\ UNCHANGED <<top, window>>
    /\ NoHandler

\* the oldest reported line leaves the window
SourceScroll ==
    /\ Observable
    /\ top < Len(hist)
    /\ top' = top + 1
    /\ UNCHANGED <<hist, window>>
    /\ NoHandler

\* Live Captions is closed
WindowClose ==
    /\ Observable
    /\ window' = FALSE
    /\ UNCHANGED <<hist, top>>
    /\ NoHandler

windows_timer_tick ==
    /\ pc = "loop"
    /\ nticks < MaxEvents
    /\ nticks' = nticks + 1
    /\ \E e \in {on_windows_timer(Self, file, Source(uia), enable_translate, wo, to) :
                     uia \in BOOLEAN, wo \in WriteOutcomes, to \in TranslateOutcomes} :
          Apply(e)

writefile_timer_tick ==
    /\ pc = "loop"
    /\ nticks < MaxEvents
    /\ nticks' = nticks + 1
    /\ \E e \in {on_writefile_timer(Self, file, Source(uia), wo) :
                     uia \in BOOLEAN, wo \in WriteOutcomes} :
          Apply(e)

ctrl_c ==
    /\ pc = "loop"
    /\ nticks < MaxEvents
    /\ nticks' = nticks + 1
    /\ \E e \in {on_ctrl_c(Self, file, Source(uia), wo) :
                     uia \in BOOLEAN, wo \in WriteOutcomes} :
          Apply(e)

Next ==
    \/ SourceAppend
    \/ SourceRewrite
    \/ SourceScroll
    \/ WindowClose
    \/ windows_timer_tick
    \/ writefile_timer_tick
    \/ ctrl_c

Spec == Init /\ [][Next]_vars

(***************************************************************************)
(* Properties of the loop and the two buffers (checked under Spec).        *)
(***************************************************************************)
\* the lines of all deltas, in the order the writer got them
RECURSIVE LinesOfAll(_)
LinesOfAll(deltas) ==
    IF deltas = <<>> THEN <<>> ELSE Lines(deltas[1]) \o LinesOfAll(Tail(deltas))

NoBlankLine(ls) == \A i \in 1..Len(ls) : ~TrimIsEmpty(ls[i])

WriteFailed(e) == e.write \in WriteOutcomes \ {"ok"}

\* the record main.rs 117-119 appends for new_content
Record(new_content) == Header \o new_content \o <<NL>>

\* C1: after a persistence step that returned Ok, the deltas written so far
\* hold each line of the source exactly once and in source order.  Stated
\* for the runs where no line is blank and every line was in the window at
\* some successful persistence step (covered = Len(hist)), so that neither
\* the blank-delta guard nor a line that came and went between two ticks
\* is what fails it.
C1_EachLineOnceInOrder ==
    (IsPersistenceStep(ev) /\ Succeeded(ev) /\ covered = Len(hist) /\ NoBlankLine(hist))
        => LinesOfAll(delivered) = hist

\* C2: a persistence step whose write fails returns Err and leaves
\* prebuffer as it was; prebuffer moves only in a step that had nothing to
\* deliver or whose whole record was written and synced.
C2_WriteFailureKeepsPrebuffer ==
    /\ (IsPersistenceStep(ev) /\ WriteFailed(ev))
          => /\ ev.result = "Err"
             /\ prebuffer = ev.before.prebuffer
             /\ extract_new_lines(prebuffer, ev.snapshot) = ev.new_content
    /\ (ev.kind # "none" /\ prebuffer # ev.before.prebuffer)
          => /\ prebuffer = ev.snapshot
             /\ \/ ~IsDeliverable(ev.new_content)
                \/ ev.write = "ok" /\ file = ev.file_before \o Record(ev.new_content)

\* a write failed after content it would have moved prebuffer past
C2_Witness ==
    /\ IsPersistenceStep(ev) /\ ev.write = "sync"
    /\ ev.before.prebuffer # <<>>
    /\ ev.snapshot # prebuffer

\* C3 as stated: a failed translation is logged and translate_buffer still
\* advances to the captured snapshot; prebuffer is not touched.
C3_FailedTranslationAdvances ==
    (ev.kind = "fast" /\ ev.translate = "fail")
        => /\ ev.logged
           /\ translate_buffer = ev.snapshot
           /\ prebuffer = ev.before.prebuffer

\* C3 amended: a failed translation is logged and translate_buffer stays
\* at the previous snapshot, so the next fast tick on the same snapshot
\* computes the same delta again; prebuffer and the file are not touched
\* and the loop goes on.
C3_FailedTranslationIsRetried ==
    (ev.kind = "fast" /\ ev.translate = "fail")
        => /\ ev.logged
           /\ translate_buffer = ev.before.translate_buffer
           /\ translate_buffer # ev.snapshot
           /\ extract_new_lines(translate_buffer, ev.snapshot) = ev.new_content
           /\ IsDeliverable(ev.new_content)
           /\ prebuffer = ev.before.prebuffer
           /\ file = ev.file_before
           /\ pc = "loop"

\* a translation failed on a delta against a buffer that was already set
C3_Witness ==
    /\ ev.kind = "fast" /\ ev.translate = "fail"
    /\ ev.before.translate_buffer # <<>>

\* C4: a tick of either cadence whose capture fails delivers nothing,
\* leaves both buffers and the file alone, returns Ok, logs nothing, and
\* the loop goes on.
C4_FailedCaptureIsEmptyTick ==
    (ev.kind \in {"fast", "slow"} /\ ~ev.shutdown /\ ev.captures > 0 /\ ~ev.captured)
        => /\ prebuffer = ev.before.prebuffer
           /\ translate_buffer = ev.before.translate_buffer
           /\ file = ev.file_before
           /\ ev.write = "none"
           /\ ev.translate = "none"
           /\ ev.result = "Ok"
           /\ ~ev.logged
           /\ pc = "loop"

\* a slow tick failed to capture while prebuffer lagged behind the source
C4_Witness ==
    /\ ev.kind = "slow" /\ ev.captures > 0 /\ ~ev.captured
    /\ ev.before.prebuffer # <<>>
    /\ ev.before.prebuffer # Snapshot

\* C5: the shutdown a fast tick starts when the source has disappeared
\* writes the content the source got since the last successful persistence
\* step.
C5_LivenessLossDrains ==
    (ev.kind = "fast" /\ ev.shutdown)
        => LET pending == extract_new_lines(ev.before.prebuffer, Snapshot)
           IN  IsDeliverable(pending)
                  => /\ ev.write = "ok"
                     /\ file = ev.file_before \o Record(pending)

\* C6: a shutdown makes one capture, uses the persistence buffer only,
\* never calls the translation sink, and exits with status 0 whatever the
\* capture and the write did; after it no event is handled.
C6_ShutdownOnceThenExit ==
    /\ ev.shutdown
          => /\ ev.captures = 1
             /\ translate_buffer = ev.before.translate_buffer
             /\ ev.translate = "none"
             /\ (ev.captured => ev.new_content = extract_new_lines(ev.before.prebuffer, ev.snapshot))
             /\ ~ev.logged
             /\ pc = "exited"
             /\ exit_code = 0
    /\ pc = "exited"
          => /\ ev.shutdown
             /\ exit_code = 0
             /\ ~ENABLED (windows_timer_tick \/ writefile_timer_tick \/ ctrl_c)
    /\ pc = "loop" => exit_code = -1

\* ctrl-c, the final write fails, the translation buffer is behind: exit 0
C6_Witness ==
    /\ ev.kind = "ctrl_c" /\ WriteFailed(ev)
    /\ translate_buffer # ev.snapshot
    /\ pc = "exited"

\* C7: a persistence step leaves translate_buffer alone, a translation
\* step leaves prebuffer alone, and the delta of a step is
\* extract_new_lines of the last snapshot its own cadence processed and
\* the snapshot it captured.
C7_BuffersIndependent ==
    [][nticks' # nticks =>
        /\ IsPersistenceStep(ev')
              => /\ translate_buffer' = translate_buffer
                 /\ lastT' = lastT
                 /\ ev'.captured => ev'.new_content = extract_new_lines(lastP.text, ev'.snapshot)
        /\ IsTranslationStep(ev')
              => /\ prebuffer' = prebuffer
                 /\ lastP' = lastP
                 /\ ev'.captured => ev'.new_content = extract_new_lines(lastT.text, ev'.snapshot)
      ]_vars

\* a translation step ran while the persistence buffer held another snapshot
C7_Witness ==
    /\ IsTranslationStep(ev) /\ Succeeded(ev)
    /\ prebuffer # <<>>
    /\ translate_buffer # prebuffer
    /\ IsDeliverable(ev.new_content)

\* C8: a buffer is empty until its cadence's first successful step, and
\* from a successful step on it is the snapshot that step captured, also
\* when the step had nothing to deliver.
C8_BufferIsLastSnapshot ==
    /\ prebuffer = (IF lastP.seen THEN lastP.text ELSE <<>>)
    /\ translate_buffer = (IF lastT.seen THEN lastT.text ELSE <<>>)
    /\ (IsPersistenceStep(ev) /\ Succeeded(ev)) => prebuffer = ev.snapshot
    /\ (IsTranslationStep(ev) /\ Succeeded(ev)) => translate_buffer = ev.snapshot

\* a persistence step with a whitespace-only delta moved prebuffer
C8_Witness ==
    /\ IsPersistenceStep(ev) /\ Succeeded(ev)
    /\ ev.new_content # <<>> /\ ~IsDeliverable(ev.new_content)
    /\ ev.before.prebuffer # <<>>
    /\ prebuffer # ev.before.prebuffer

IsPrefix(a, b) == Len(a) <= Len(b) /\ SubSeq(b, 1, Len(a)) = a

RECURSIVE Records(_)
\* the records of a sequence of deltas, one after the other
Records(ds) == IF ds = <<>> THEN <<>> ELSE Record(Head(ds)) \o Records(Tail(ds))

\* C17: whatever the writes do, the output only grows by appending and it
\* holds exactly one record (header, content, terminator) for each delta
\* the writer took: the records of the deltas whose save returned Ok, and
\* nothing else - no header without its content, no content twice.
C17_OneRecordPerDelta ==
    /\ ev.kind # "none" => IsPrefix(ev.file_before, file)
    /\ file = Records(delivered)

\* C18: the loop is left only by a shutdown, which only ctrl-c or a fast
\* tick that finds the window gone starts; a tick whose capture, write or
\* translation failed leaves main() in the loop with no exit status, its
\* error at most logged, so the next event is selected as after any tick.
C18_OnlyShutdownEndsLoop ==
    /\ pc = "exited"
          => /\ ev.shutdown
             /\ ev.kind = "ctrl_c" \/ (ev.kind = "fast" /\ ~window)
    /\ (/\ ev.kind \in {"fast", "slow"} /\ ~ev.shutdown
        /\ \/ (ev.captures > 0 /\ ~ev.captured)
           \/ WriteFailed(ev)
           \/ ev.translate = "fail")
          => /\ pc = "loop"
             /\ exit_code = -1
             /\ ~ev.exits
             /\ ev.logged = (ev.result = "Err")

\* a fast tick whose translation failed, then the loop handled a slow tick
\* whose write failed, and is still running
C18_Witness ==
    /\ ev.kind = "slow" /\ WriteFailed(ev) /\ ev.logged
    /\ sink # <<>> /\ ~sink[Len(sink)].ok
    /\ nticks = 2
    /\ pc = "loop"

(***************************************************************************)
(* SpecAppend: the loop of main() over a source that only appends          *)
(* non-blank lines, with a file whose writes all succeed; captures may     *)
(* still fail on any tick.                                                 *)
(***************************************************************************)
MaxSteps == 3

SpokenLines == {<<"a">>, <<"b">>}

AppendObservable == window /\ pc = "loop" /\ nticks < MaxSteps

\* the source says one more non-blank line; nothing scrolls, nothing is
\* rewritten
SourceSpeaks ==
    /\ AppendObservable
    /\ Len(hist) < MaxHist
    /\ \E l \in SpokenLines : hist' = Append(hist, l)
    /\ UNCHANGED <<top, window>>
    /\ NoHandler

AppendWindowClose ==
    /\ AppendObservable
    /\ window' = FALSE
    /\ UNCHANGED <<hist, top>>
    /\ NoHandler

append_windows_timer_tick ==
    /\ pc = "loop"
    /\ nticks < MaxSteps
    /\ nticks' = nticks + 1
    /\ \E e \in {on_windows_timer(Self, file, Source(uia), enable_translate, "ok", to) :
                     uia \in BOOLEAN, to \in TranslateOutcomes} :
          Apply(e)

append_writefile_timer_tick ==
    /\ pc = "loop"
    /\ nticks < MaxSteps
    /\ nticks' = nticks + 1
    /\ \E e \in {on_writefile_timer(Self, file, Source(uia), "ok") : uia \in BOOLEAN} :
          Apply(e)

append_ctrl_c ==
    /\ pc = "loop"
    /\ nticks < MaxSteps
    /\ nticks' = nticks + 1
    /\ \E e \in {on_ctrl_c(Self, file, Source(uia), "ok") : uia \in BOOLEAN} :
          Apply(e)

AppendNext ==
    \/ SourceSpeaks
    \/ AppendWindowClose
    \/ append_windows_timer_tick
    \/ append_writefile_timer_tick
    \/ append_ctrl_c

SpecAppend == Init /\ [][AppendNext]_vars

(***************************************************************************)
(* Properties of append-only runs (checked under SpecAppend).              *)
(***************************************************************************)
\* the lines of the output that are neither a header nor empty
ContentLines(f) == SelectSeq(Lines(f), LAMBDA l : l # <<"#">> /\ l # <<>>)

\* C20: over an append-only source of non-blank lines and a file that
\* takes every write, the content lines of the output are at every point
\* the lines of the snapshot in prebuffer, each once and in order, whatever
\* captures fail and however fast ticks and the final drain interleave.
C20_OutputIsPrebufferLines ==
    ContentLines(file) = Lines(prebuffer)

\* a slow tick, a translating fast tick, more speech, then the drain of a
\* shutdown adds the second record
C20_Witness ==
    /\ ev.shutdown /\ ev.write = "ok"
    /\ Len(delivered) = 2
    /\ sink # <<>>
    /\ Len(ContentLines(file)) = 2

(***************************************************************************)
(* SpecSteps: the loop of main() with each arm of select! in two steps,    *)
(* its selection with the capture, diff and write or translation, and its  *)
(* end with the buffer update (and process::exit for a shutdown).  Ctrl-c  *)
(* can be pressed at any moment, also between the two steps.               *)
(***************************************************************************)
\* mutant: select! is polled again while an arm is still running
CanSelect_preempt(p) == p \in {"loop", "handling"}

\* select! is polled at the top of the loop only: the body of the arm
\* taken, awaits included, is inside the loop body (main.rs 253-254, 279-280)
CanSelect(p) == p = "loop"

\* ctrl-c is pressed
Interrupt ==
    /\ pc # "exited"
    /\ ~sigint.pressed
    /\ sigint' = [pressed |-> TRUE, during |-> running.kind]
    /\ UNCHANGED <<prebuffer, translate_buffer, enable_translate, file, sink, pc,
                   exit_code, nticks, ev, running, lastP, lastT, delivered, covered,
                   source_vars, fn_vars>>

\* an arm is taken and runs up to its buffer update: the capture, the diff
\* and the write or the translation have happened
Begin(e) ==
    /\ nticks' = nticks + 1
    /\ running' = e
    /\ pc' = "handling"
    /\ file' = e.file
    /\ sink' = IF e.translate = "none" THEN sink
               ELSE Append(sink, [text |-> e.new_content, ok |-> e.translate = "ok"])
    /\ delivered' = IF e.write = "ok" THEN Append(delivered, e.new_content) ELSE delivered
    /\ UNCHANGED <<prebuffer, translate_buffer, enable_translate, exit_code, ev, sigint,
                   lastP, lastT, covered, source_vars, fn_vars>>

begin_windows_timer ==
    /\ CanSelect(pc)
    /\ nticks < MaxEvents
    /\ \E e \in {on_windows_timer(Self, file, Source(uia), enable_translate, wo, to) :
                     uia \in BOOLEAN, wo \in WriteOutcomes, to \in TranslateOutcomes} :
          Begin(e)

begin_writefile_timer ==
    /\ CanSelect(pc)
    /\ nticks < MaxEvents
    /\ \E e \in {on_writefile_timer(Self, file, Source(uia), wo) :
                     uia \in BOOLEAN, wo \in WriteOutcomes} :
          Begin(e)

begin_ctrl_c ==
    /\ CanSelect(pc)
    /\ sigint.pressed
    /\ nticks < MaxEvents
    /\ \E e \in {on_ctrl_c(Self, file, Source(uia), wo) :
                     uia \in BOOLEAN, wo \in WriteOutcomes} :
          Begin(e)

\* the arm in flight ends: buffer update, then process::exit or the next
\* round of the loop
finish_handler ==
    /\ pc = "handling"
    /\ ev' = running
    /\ running' = NoEvent
    /\ prebuffer' = running.self.prebuffer
    /\ translate_buffer' = running.self.translate_buffer
    /\ pc' = IF running.exits THEN "exited" ELSE "loop"
    /\ exit_code' = running.exit_code
    /\ lastP' = IF IsPersistenceStep(running) /\ Succeeded(running)
                THEN [seen |-> TRUE, text |-> running.snapshot] ELSE lastP
    /\ lastT' = IF IsTranslationStep(running) /\ Succeeded(running)
                THEN [seen |-> TRUE, text |-> running.snapshot] ELSE lastT
    /\ covered' = IF IsPersistenceStep(running) /\ Succeeded(running) /\ top <= covered
                  THEN Len(hist) ELSE covered
    /\ UNCHANGED <<enable_translate, file, sink, nticks, sigint, delivered,
                   source_vars, fn_vars>>

StepNext ==
    \/ SourceAppend
    \/ WindowClose
    \/ Interrupt
    \/ begin_windows_timer
    \/ begin_writefile_timer
    \/ begin_ctrl_c
    \/ finish_handler

SpecSteps == Init /\ [][StepNext]_vars

(***************************************************************************)
(* Properties of the selection (checked under SpecSteps).                  *)
(***************************************************************************)
InFlight == running.kind # "none"

\* C19: one event is taken per round and its handler runs to its end
\* before the next is taken: while a handler is in flight the only step of
\* the program is that handler's end with its buffer update; a ctrl-c
\* pressed meanwhile changes nothing but the pending signal, and the
\* shutdown it asks for starts only when no handler is in flight.
C19_HandlersRunToCompletion ==
    [][/\ (pc = "handling") = InFlight
       /\ nticks' \in {nticks, nticks + 1}
       /\ (InFlight /\ running' # running)
             => /\ running' = NoEvent
                /\ ev' = running
                /\ prebuffer' = running.self.prebuffer
                /\ translate_buffer' = running.self.translate_buffer
                /\ nticks' = nticks
       /\ (InFlight /\ running' = running)
             => UNCHANGED <<prebuffer, translate_buffer, file, sink, pc, exit_code, nticks>>
       /\ (~InFlight /\ running' # running)
             => /\ nticks' = nticks + 1
                /\ UNCHANGED <<prebuffer, translate_buffer>>
                /\ running'.kind = "ctrl_c" => sigint.pressed
       /\ (~InFlight /\ running' = running)
             => UNCHANGED <<prebuffer, translate_buffer, file, sink, pc, exit_code, nticks>>
       /\ pc' = "exited" /\ pc # "exited"
             => InFlight /\ running.shutdown
      ]_vars

\* ctrl-c was pressed while a slow tick had written its record and not
\* yet advanced prebuffer; the tick ended, then the shutdown ran and found
\* nothing left to write
C19_Witness ==
    /\ sigint.pressed /\ sigint.during = "slow"
    /\ ev.kind = "ctrl_c" /\ pc = "exited"
    /\ ev.captured /\ ev.write = "none"
    /\ Len(delivered) = 1
    /\ ev.before.prebuffer = Snapshot

(***************************************************************************)
(* SpecFn: one call of extract_new_lines on every pair of bounded texts.   *)
(***************************************************************************)
FnInit ==
    /\ SourceInit
    /\ EngineInit
    /\ enable_translate = FALSE
    /\ in_previous \in TextsUpTo(MaxLen)
    /\ in_current \in TextsUpTo(MaxLen)
    /\ out_result = <<>>
    /\ called = FALSE

Call ==
    /\ ~called
    /\ out_result' = extract_new_lines(in_previous, in_current)
    /\ called' = TRUE
    /\ UNCHANGED <<in_previous, in_current, source_vars, engine_vars>>

FnNext == Call

SpecFn == FnInit /\ [][FnNext]_vars

(***************************************************************************)
(* Properties of extract_new_lines (checked under SpecFn).                 *)
(***************************************************************************)
LinesAfter(ls, k) == SubSeq(ls, k + 1, Len(ls))

\* current is previous with its last line rewritten in place
TrailingLineRewritten(p, c) ==
    /\ Len(p) >= 1
    /\ Len(c) = Len(p)
    /\ \A i \in 1..(Len(p) - 1) : c[i] = p[i]
    /\ c[Len(c)] # p[Len(p)]

\* the largest j such that the last j lines of p are the first j lines of c
SuffixPrefixOverlap(p, c) ==
    LET js == {j \in 0..Min(Len(p), Len(c)) :
                 \A i \in 1..j : p[Len(p) - j + i] = c[i]}
    IN  CHOOSE j \in js : \A x \in js : x <= j

\* the largest k such that k consecutive lines of p, from some index, are
\* the first k lines of c
LongestRunOverlap(p, c) ==
    LET ks == {k \in 0..Min(Len(p), Len(c)) :
                 k = 0 \/ \E s \in 1..(Len(p) - k + 1) : \A i \in 1..k : p[s + i - 1] = c[i]}
    IN  CHOOSE k \in ks : \A x \in ks : x <= k

\* C9 as stated: a current that is previous with its trailing line
\* rewritten in place yields no new content.
C9_RewriteIsNotNew ==
    (called /\ in_previous # <<>>
            /\ TrailingLineRewritten(Lines(in_previous), Lines(in_current)))
        => out_result = <<>>

\* C9 amended: the rewritten trailing line is reported as new content.
\* With two or more lines the result is the last line of current followed
\* by a terminator (nothing when that line is empty); with a single line
\* nothing overlaps and the result is current unchanged.
C9_RewriteIsReported ==
    (called /\ in_previous # <<>>
            /\ TrailingLineRewritten(Lines(in_previous), Lines(in_current)))
        => LET c == Lines(in_current)
               last == c[Len(c)]
           IN  out_result = IF Len(c) = 1 THEN in_current
                            ELSE IF last = <<>> THEN <<>>
                            ELSE last \o <<NL>>

\* two lines, the second rewritten: the rewritten line comes back
C9_Witness ==
    /\ called /\ in_previous # <<>>
    /\ TrailingLineRewritten(Lines(in_previous), Lines(in_current))
    /\ Len(Lines(in_current)) = 2
    /\ out_result = Lines(in_current)[2] \o <<NL>>

LinesAppended(p, c) ==
    /\ Len(p) >= 1
    /\ Len(c) > Len(p)
    /\ SubSeq(c, 1, Len(p)) = p

\* the text extract_new_lines makes of the lines after the overlap
\* (main.rs 197-202): joined, and terminated when the joined text is not empty
NewContentOf(rest) == IF rest = << <<>> >> THEN <<>> ELSE Terminated(rest)

\* no line of c is a line of p
NoCommonLine(p, c) == \A i \in 1..Len(p), j \in 1..Len(c) : p[i] # c[j]

\* C11 as stated: if current is a non-empty previous with lines appended,
\* the result is exactly the appended lines, each followed by a terminator.
C11_AppendedLinesTerminated ==
    (called /\ in_previous # <<>> /\ LinesAppended(Lines(in_previous), Lines(in_current)))
        => out_result = Terminated(LinesAfter(Lines(in_current), Len(Lines(in_previous))))

\* C11 amended: the result is exactly the appended lines in order, each
\* followed by a terminator, and nothing else, unless the only appended
\* line is empty: then the result is the empty text.
C11_AppendedLinesReturned ==
    (called /\ in_previous # <<>> /\ LinesAppended(Lines(in_previous), Lines(in_current)))
        => out_result = NewContentOf(LinesAfter(Lines(in_current), Len(Lines(in_previous))))

\* two lines appended to a previous of one line
C11_Witness ==
    /\ called /\ in_previous # <<>>
    /\ LinesAppended(Lines(in_previous), Lines(in_current))
    /\ Len(Lines(in_previous)) = 1 /\ Len(Lines(in_current)) = 3
    /\ out_result = Terminated(LinesAfter(Lines(in_current), 1))
    /\ Len(out_result) = 4

\* C12: diffing a non-empty snapshot against itself yields no new content.
C12_SelfDiffIsEmpty ==
    (called /\ in_current # <<>> /\ in_previous = in_current) => out_result = <<>>

\* a snapshot of two lines diffed against itself
C12_Witness ==
    /\ called /\ in_previous = in_current
    /\ Len(Lines(in_current)) = 2
    /\ out_result = <<>>

\* C13: if previous is not empty and no line of current is a line of
\* previous, the result is current unchanged.
C13_NoCommonLineReturnsCurrent ==
    (called /\ in_previous # <<>> /\ NoCommonLine(Lines(in_previous), Lines(in_current)))
        => out_result = in_current

\* previous made of empty lines only, current without terminator
C13_Witness ==
    /\ called
    /\ in_previous = <<NL, NL>>
    /\ Len(Lines(in_current)) = 2
    /\ in_current[Len(in_current)] # NL
    /\ NoCommonLine(Lines(in_previous), Lines(in_current))
    /\ out_result = in_current

\* C14: with an empty previous the result is current unchanged.
C14_FirstRunReturnsCurrent ==
    (called /\ in_previous = <<>>) => out_result = in_current

\* a first snapshot of two lines, the last not terminated
C14_Witness ==
    /\ called /\ in_previous = <<>>
    /\ Len(Lines(in_current)) = 2
    /\ in_current[Len(in_current)] # NL
    /\ out_result = in_current

\* the reference result of C15: k is the longest run of lines of previous,
\* from any start index, equal to the leading lines of current
Reference(prev, cur) ==
    LET p == Lines(prev)
        c == Lines(cur)
        k == LongestRunOverlap(p, c)
    IN  IF prev = <<>> \/ k = 0 THEN cur
        ELSE IF k = Len(c) THEN <<>>
        ELSE NewContentOf(LinesAfter(c, k))

\* C15: on every pair of texts the call returns, and returns the reference
\* result.
C15_AgreesWithReference ==
    called => out_result = Reference(in_previous, in_current)

\* a line of current after the first mismatch equals a later line of
\* previous and is emitted all the same
C15_Witness ==
    /\ called /\ in_previous # <<>>
    /\ LET p == Lines(in_previous)
           c == Lines(in_current)
       IN  /\ Len(p) = 3 /\ Len(c) = 3
           /\ p[1] = c[1] /\ p[2] # c[2] /\ p[3] = c[3]
           /\ out_result = Terminated(LinesAfter(c, 1))

\* C16 as stated: every non-empty result ends with a line terminator.
C16_NonEmptyResultTerminated ==
    (called /\ out_result # <<>>) => out_result[Len(out_result)] = NL

\* C16 amended: in the overlap case (0 < k < lines of current) a non-empty
\* result is the lines from k on joined by terminators with one trailing
\* terminator, so it ends with a terminator; with an empty previous or no
\* overlap the result is current as it is and ends with a terminator only
\* if current does.
C16_OverlapResultTerminated ==
    called =>
        LET p == Lines(in_previous)
            c == Lines(in_current)
            k == LongestRunOverlap(p, c)
        IN  IF in_previous # <<>> /\ k > 0
            THEN out_result # <<>>
                    => /\ out_result = Join(LinesAfter(c, k), <<NL>>) \o <<NL>>
                       /\ out_result[Len(out_result)] = NL
            ELSE out_result # <<>>
                    => (out_result[Len(out_result)] = NL <=> in_current[Len(in_current)] = NL)

\* an overlap of one line, two new lines, current not terminated
C16_Witness ==
    /\ called /\ in_previous # <<>>
    /\ LET p == Lines(in_previous)
           c == Lines(in_current)
       IN  /\ LongestRunOverlap(p, c) = 1 /\ Len(c) = 3
           /\ in_current[Len(in_current)] # NL
           /\ out_result[Len(out_result)] = NL

=============================================================================
